---- MODULE Spec2Model ----
(***************************************************************************)
(* A model of the LGPMD utility functions:                                 *)
(*   tutorial_v2.0/utility/rdf_analysis.py  snap_molecule_indices,         *)
(*                                          intermolecular_rdf, rdf2sq     *)
(*   paper_code/utility/rdf_analysis.py     rdf2sq, compute_simple_rdf     *)
(*   tutorial_v2.0/utility/hoomd_sim.py     mie_fluid, table_fluid         *)
(*                                                                         *)
(* Three specifications share the module:                                  *)
(*   Spec     one call of intermolecular_rdf or compute_simple_rdf         *)
(*   SpecSq   one call of rdf2sq                                           *)
(*   SpecSim  one call of mie_fluid or table_fluid                         *)
(*                                                                         *)
(* Numbers.  Lengths and distances are integers counted in steps of the    *)
(* float32 grid around the values used (one step = one ulp), so that       *)
(* np.nextafter(x, 0) is x - 1 for x > 0.  Particles lie on the x axis of  *)
(* an orthorhombic periodic box; the separation of two particles is the    *)
(* minimum-image distance along x.                                         *)
(* An optional Python value is a sequence: <<>> is None (or a local name   *)
(* not yet bound), <<v>> is the value v.                                   *)
(***************************************************************************)
EXTENDS Integers, Sequences, FiniteSets, TLC

VARIABLES
    \* ---- intermolecular_rdf / compute_simple_rdf ----
    call,           \* the arguments of the call
    pc,             \* "call", "setup", "loop", "returned", "raised"
    fileOpen,       \* the trajectory file handle is open
    r_max,          \* the local r_max after line 30-33 (an optional value)
    rdf,            \* the freud.density.RDF object (an optional value)
    type_A, type_B, \* the species masks (sets of particle indices)
    molecules,      \* cluster label per particle (<<>> when not computed)
    k,              \* number of loop iterations completed
    pre_filter,     \* local pre_filter  (optional)
    post_filter,    \* local post_filter (optional)
    normalization,  \* the second returned value (optional)
    error,          \* "none" or the kind of the exception that left the call
    folded,         \* history: trajectory indices passed to rdf.compute
    nlist_pre,      \* history: neighbor list of the last frame, as queried
    nlist_post,     \* history: neighbor list of the last frame, as folded
    \* ---- rdf2sq ----
    sqcall, sqpc, j, sq, sqerror,
    \* ---- mie_fluid / table_fluid ----
    \* simcall: the arguments; simpc: the statement reached (0: no call);
    \* timestep: sim.timestep; updaters, writers: sim.operations;
    \* remaining: steps left of the sim.run in progress (optional);
    \* ranIn: history, what was attached during the steps of each run;
    \* oplog: history, the engine operations performed
    simcall, simpc, timestep, updaters, writers, remaining, ranIn, oplog

rdfVars == <<call, pc, fileOpen, r_max, rdf, type_A, type_B, molecules, k,
             pre_filter, post_filter, normalization, error, folded,
             nlist_pre, nlist_post>>
sqVars  == <<sqcall, sqpc, j, sq, sqerror>>
simVars == <<simcall, simpc, timestep, updaters, writers, remaining, ranIn, oplog>>
vars    == <<rdfVars, sqVars, simVars>>

None == <<>>
Some(v) == <<v>>
IsNone(o) == o = <<>>
Val(o) == o[1]

----------------------------------------------------------------------------
(* Bounds of the model *)

\* longest trajectory (number of frames)
MaxFrames == 2

----------------------------------------------------------------------------
(* Helpers *)

Max2(a, b) == IF a >= b THEN a ELSE b
Min2(a, b) == IF a <= b THEN a ELSE b
Abs(a) == IF a < 0 THEN -a ELSE a

RECURSIVE GCD(_, _)
GCD(a, b) == IF b = 0 THEN a ELSE GCD(b, a % b)

RECURSIVE SetToSortedSeq(_)
SetToSortedSeq(S) ==
    IF S = {} THEN <<>>
    ELSE LET m == CHOOSE x \in S : \A y \in S : x <= y
         IN  <<m>> \o SetToSortedSeq(S \ {m})

----------------------------------------------------------------------------
(* Trajectory frames *)

Particles == {1, 2, 3}

\* A cubic box; particles 1,2 of type A, 3 of type B; 1 and 3 bonded.
FrameCubic ==
    [types |-> <<"A", "B">>, typeid |-> <<0, 0, 1>>, bonds |-> {<<1, 3>>},
     box |-> <<8, 8, 8>>, pos |-> <<0, 1, 2>>]
\* A box whose x edge is half the others; one chain 1-2-3.
FrameSlab ==
    [types |-> <<"A", "B">>, typeid |-> <<0, 0, 1>>,
     bonds |-> {<<1, 2>>, <<2, 3>>},
     box |-> <<4, 8, 8>>, pos |-> <<0, 1, 2>>]
\* Another type registry, no bonds, other positions.
FrameOther ==
    [types |-> <<"X", "A">>, typeid |-> <<0, 1, 1>>, bonds |-> {},
     box |-> <<8, 8, 8>>, pos |-> <<0, 4, 3>>]

FrameCatalogue == {FrameCubic, FrameSlab, FrameOther}

Trajectories == UNION {[1..n -> FrameCatalogue] : n \in 0..MaxFrames}

----------------------------------------------------------------------------
(* Python and library operations used by the RDF routines *)

\* trajectory[start:stop]: the 0-based frame indices of the Python slice,
\* in the order the loop visits them (slice.indices: a negative bound counts
\* from the end, and both bounds are clamped to 0..len).
SliceBound(b, len, dflt) ==
    IF IsNone(b) THEN dflt
    ELSE IF Val(b) < 0 THEN Max2(Val(b) + len, 0)
    ELSE Min2(Val(b), len)

SliceIndices(start, stop, len) ==
    LET lo == SliceBound(Some(start), len, 0)
        hi == SliceBound(stop, len, len)
    IN  [i \in 1..Max2(hi - lo, 0) |-> lo + i - 1]

\* list.index(name): the 0-based position of the first match, None when the
\* name is absent (Python raises ValueError).
TypesIndex(types, name) ==
    IF \E i \in 1..Len(types) : types[i] = name
    THEN Some((CHOOSE i \in 1..Len(types) :
                  types[i] = name /\ \A m \in 1..(i - 1) : types[m] # name) - 1)
    ELSE None

\* snap.particles.typeid == id : the boolean mask, as the set of particles.
TypeMask(snap, id) == {p \in Particles : snap.typeid[p] = id}

\* array[mask]: the selected particles in increasing index order.
Masked(mask) == SetToSortedSeq(mask)

\* np.max(box[:3]) * 0.5 (exact in binary floating point)
HalfMaxEdge(box) == Max2(box[1], Max2(box[2], box[3])) \div 2

\* np.nextafter(x, 0, dtype=np.float32): one grid step toward zero.
NextAfterZero(x) == IF x > 0 THEN x - 1 ELSE IF x < 0 THEN x + 1 ELSE 0

\* lines 30-33: the default r_max
DefaultRMax(box) == NextAfterZero(HalfMaxEdge(box))

\* freud.density.RDF(bins, r_max, r_min): the constructor validates its
\* arguments and raises (ValueError; OverflowError for a negative bins).
RDFCtorErrorNoRangeCheck(bins, rmax, rmin) ==
    IF bins <= 0 \/ rmax <= 0 \/ rmin < 0 THEN "InvalidInput" ELSE "none"
RDFCtorError(bins, rmax, rmin) ==
    IF bins < 0 THEN "InvalidInput"
    ELSE IF bins = 0 THEN "InvalidInput"
    ELSE IF rmax <= 0 THEN "InvalidInput"
    ELSE IF rmin < 0 THEN "InvalidInput"
    ELSE IF rmax <= rmin THEN "InvalidInput"
    ELSE "none"

NewRDF(bins, rmax, rmin) ==
    [bins |-> bins, r_max |-> rmax, r_min |-> rmin,
     bin_counts |-> [b \in 0..(bins - 1) |-> 0], frame_counter |-> 0]

\* The histogram bin of a distance in [r_min, r_max).
BinOf(r, d) == ((d - r.r_min) * r.bins) \div (r.r_max - r.r_min)

InHistogram(r, d) == r.r_min <= d /\ d < r.r_max

\* rdf.compute(..., neighbors=nlist, reset=...): fold one frame's pairs in.
RdfCompute(r, nlist, reset) ==
    LET base == IF reset THEN [b \in 0..(r.bins - 1) |-> 0] ELSE r.bin_counts
        frames == IF reset THEN 0 ELSE r.frame_counter
    IN  [r EXCEPT
           !.bin_counts = [b \in 0..(r.bins - 1) |->
               base[b] + Cardinality({n \in nlist :
                                        InHistogram(r, n.d) /\ BinOf(r, n.d) = b})],
           !.frame_counter = frames + 1]

\* Minimum-image separation along x in a periodic box of edge L.
MinImage(dx, L) == LET m == dx % L IN Min2(m, L - m)

\* The neighbor query refuses a search radius that reaches half a box edge
\* ("r_max is too large for this box", a RuntimeError).
QueryTooLarge(box, rmax) == \E e \in 1..3 : box[e] <= 2 * rmax

\* aq.query(B_pos, {r_max, exclude_ii}).toNeighborList() with aq built on
\* (box, A_pos): q indexes the query points (B), p the points (A), 1-based.
Query(box, pos, A_ids, B_ids, rmax, exclude_ii) ==
    {n \in {[q |-> qi, p |-> pi,
             d |-> MinImage(pos[B_ids[qi]] - pos[A_ids[pi]], box[1])] :
               qi \in 1..Len(B_ids), pi \in 1..Len(A_ids)} :
        /\ n.d < rmax
        /\ ~(exclude_ii /\ n.q = n.p)}

\* freud.cluster.Cluster over the bond neighbor list: the connected component
\* of the bond graph that holds the particles of S.
RECURSIVE Component(_, _)
Component(bonds, S) ==
    LET T == S \cup {y \in Particles :
                       \E x \in S : <<x, y>> \in bonds \/ <<y, x>> \in bonds}
    IN  IF T = S THEN S ELSE Component(bonds, T)

\* snap_molecule_indices: one label per particle, equal exactly for particles
\* of one cluster (the label used here is the cluster's smallest particle).
SnapMoleculeIndices(snap) ==
    [p \in Particles |->
        CHOOSE m \in Component(snap.bonds, {p}) :
            \A y \in Component(snap.bonds, {p}) : m <= y]

\* molecules[type_X]
MoleculesOf(mols, ids) == [i \in 1..Len(ids) |-> mols[ids[i]]]

\* lines 57-59: nlist.filter(indices_A != indices_B)
FilterBondedKeepingSame(nlist, molecules_A, molecules_B) ==
    {n \in nlist : molecules_A[n.p] = molecules_B[n.q]}
FilterBonded(nlist, molecules_A, molecules_B) ==
    {n \in nlist : molecules_A[n.p] # molecules_B[n.q]}

\* post_filter / pre_filter as a reduced fraction <<numerator, denominator>>
Frac(a, b) == LET g == GCD(a, b) IN <<a \div g, b \div g>>

One == <<1, 1>>

----------------------------------------------------------------------------
(* The calls explored *)

Names == {"A", "B", "X"}
StartValues == {-1, 0, 1}
StopValues == {None, Some(-1), Some(1), Some(2)}
BinsValues == {-1, 0, 2}
RMinValues == {-1, 0, 2}
RMaxValues == {None, Some(2)}

IntermolecularCalls ==
    [routine : {"intermolecular_rdf"}, traj : Trajectories,
     A_name : Names, B_name : Names, start : StartValues, stop : StopValues,
     r_max : RMaxValues, r_min : RMinValues, bins : BinsValues,
     exclude_bonded : BOOLEAN]

\* compute_simple_rdf(gsd_fname, rmin, rmax, bins) has no species, range or
\* exclusion arguments; the unused fields hold fixed values.
SimpleCalls ==
    [routine : {"compute_simple_rdf"}, traj : Trajectories,
     A_name : {"A"}, B_name : {"A"}, start : {0}, stop : {None},
     r_max : {Some(2), Some(3)}, r_min : RMinValues, bins : BinsValues,
     exclude_bonded : {FALSE}]

rdfIdle ==
    /\ call = None /\ pc = "idle" /\ fileOpen = FALSE /\ r_max = None
    /\ rdf = None /\ type_A = {} /\ type_B = {} /\ molecules = <<>> /\ k = 0
    /\ pre_filter = None /\ post_filter = None /\ normalization = None
    /\ error = "none" /\ folded = <<>> /\ nlist_pre = {} /\ nlist_post = {}

sqIdle ==
    /\ sqcall = None /\ sqpc = "idle" /\ j = 0 /\ sq = <<>> /\ sqerror = "none"

simIdle ==
    /\ simcall = None /\ simpc = 0 /\ timestep = 0 /\ updaters = {}
    /\ writers = {} /\ remaining = None /\ ranIn = {} /\ oplog = <<>>

Init ==
    /\ call \in IntermolecularCalls \cup SimpleCalls
    /\ pc = "call"
    /\ fileOpen = FALSE
    /\ r_max = None
    /\ rdf = None
    /\ type_A = {} /\ type_B = {}
    /\ molecules = <<>>
    /\ k = 0
    /\ pre_filter = None /\ post_filter = None
    /\ normalization = None
    /\ error = "none"
    /\ folded = <<>>
    /\ nlist_pre = {} /\ nlist_post = {}
    /\ sqIdle /\ simIdle

----------------------------------------------------------------------------
(* intermolecular_rdf *)

\* An exception leaves the call.  closes: the exception passes through the
\* with statement of line 28, whose exit closes the file.
Raise(kind, closes) ==
    /\ pc' = "raised"
    /\ error' = kind
    /\ fileOpen' = IF closes THEN FALSE ELSE fileOpen

\* line 28 / line 15 of compute_simple_rdf: gsd.hoomd.open
Open ==
    /\ pc = "call"
    /\ pc' = "setup"
    /\ fileOpen' = TRUE
    /\ UNCHANGED <<call, r_max, rdf, type_A, type_B, molecules, k, pre_filter,
                   post_filter, normalization, error, folded, nlist_pre,
                   nlist_post, sqVars, simVars>>

\* line 61: rdf.compute(aq, neighbors=nlist, reset=False)
FoldFrameResetting(r, nlist) == RdfCompute(r, nlist, TRUE)
FoldFrame(r, nlist) == RdfCompute(r, nlist, FALSE)

\* line 29: snap = trajectory[0]
LastSnap(traj) == traj[Len(traj)]
FirstSnap(traj) == traj[1]

\* lines 30-33
ResolveRMax(given, box) == IF IsNone(given) THEN DefaultRMax(box) ELSE Val(given)

\* lines 29-40, up to the loop
IntermolecularSetup ==
    /\ pc = "setup"
    /\ call.routine = "intermolecular_rdf"
    /\ IF Len(call.traj) = 0
       THEN \* trajectory[0] raises IndexError
            /\ Raise("InvalidInput", TRUE)
            /\ UNCHANGED <<r_max, rdf, type_A, type_B, molecules>>
       ELSE LET snap == FirstSnap(call.traj)
                rm == ResolveRMax(call.r_max, snap.box)
                bad == RDFCtorError(call.bins, rm, call.r_min)
                ia == TypesIndex(snap.types, call.A_name)
                ib == TypesIndex(snap.types, call.B_name)
            IN  /\ r_max' = Some(rm)
                /\ IF bad # "none"
                   THEN /\ Raise(bad, TRUE)
                        /\ UNCHANGED <<rdf, type_A, type_B, molecules>>
                   ELSE /\ rdf' = Some(NewRDF(call.bins, rm, call.r_min))
                        /\ IF IsNone(ia)
                           THEN /\ Raise("Lookup", TRUE)
                                /\ UNCHANGED <<type_A, type_B, molecules>>
                           ELSE /\ type_A' = TypeMask(snap, Val(ia))
                                /\ IF IsNone(ib)
                                   THEN /\ Raise("Lookup", TRUE)
                                        /\ UNCHANGED <<type_B, molecules>>
                                   ELSE /\ type_B' = TypeMask(snap, Val(ib))
                                        /\ molecules' =
                                             IF call.exclude_bonded
                                             THEN SnapMoleculeIndices(snap)
                                             ELSE <<>>
                                        /\ pc' = "loop"
                                        /\ UNCHANGED <<error, fileOpen>>
    /\ UNCHANGED <<call, k, pre_filter, post_filter, normalization, folded,
                   nlist_pre, nlist_post, sqVars, simVars>>

\* the frames of trajectory[start:stop]
LoopIndices == SliceIndices(call.start, call.stop, Len(call.traj))

\* lines 41-61: one iteration of the loop
IntermolecularFrame ==
    /\ pc = "loop"
    /\ call.routine = "intermolecular_rdf"
    /\ k < Len(LoopIndices)
    /\ LET idx == LoopIndices[k + 1]
           snap == call.traj[idx + 1]
           A_ids == Masked(type_A)
           same == call.A_name = call.B_name
           B_ids == IF same THEN A_ids ELSE Masked(type_B)
           rm == Val(r_max)
       IN  IF QueryTooLarge(snap.box, rm)
           THEN /\ Raise("RuntimeError", TRUE)
                /\ UNCHANGED <<rdf, k, pre_filter, post_filter, folded,
                               nlist_pre, nlist_post>>
           ELSE LET nlist == Query(snap.box, snap.pos, A_ids, B_ids, rm, same)
                    kept == IF call.exclude_bonded
                            THEN FilterBonded(nlist,
                                              MoleculesOf(molecules, A_ids),
                                              MoleculesOf(molecules, B_ids))
                            ELSE nlist
                IN  /\ pre_filter' = IF call.exclude_bonded
                                     THEN Some(Cardinality(nlist))
                                     ELSE pre_filter
                    /\ post_filter' = IF call.exclude_bonded
                                      THEN Some(Cardinality(kept))
                                      ELSE post_filter
                    /\ rdf' = Some(FoldFrame(Val(rdf), kept))
                    /\ k' = k + 1
                    /\ folded' = Append(folded, idx)
                    /\ nlist_pre' = nlist
                    /\ nlist_post' = kept
                    /\ UNCHANGED <<pc, error, fileOpen>>
    /\ UNCHANGED <<call, r_max, type_A, type_B, molecules, normalization,
                   sqVars, simVars>>

\* line 62: post_filter / pre_filter if exclude_bonded else 1
NormalizationInverted(exclude, post, pre) ==
    IF exclude THEN Frac(Val(pre), Val(post)) ELSE One
Normalization(exclude, post, pre) ==
    IF exclude THEN Frac(Val(post), Val(pre)) ELSE One

\* lines 62-63: after the loop
IntermolecularReturn ==
    /\ pc = "loop"
    /\ call.routine = "intermolecular_rdf"
    /\ k = Len(LoopIndices)
    /\ IF call.exclude_bonded /\ IsNone(post_filter)
       THEN \* the loop body never ran: the name is not bound
            /\ Raise("UnboundLocalError", TRUE)
            /\ UNCHANGED normalization
       ELSE IF call.exclude_bonded /\ Val(pre_filter) = 0
       THEN /\ Raise("ZeroDivisionError", TRUE)
            /\ UNCHANGED normalization
       ELSE /\ normalization' =
                 Some(Normalization(call.exclude_bonded, post_filter, pre_filter))
            /\ pc' = "returned"
            /\ fileOpen' = FALSE
            /\ UNCHANGED error
    /\ UNCHANGED <<call, r_max, rdf, type_A, type_B, molecules, k, pre_filter,
                   post_filter, folded, nlist_pre, nlist_post, sqVars, simVars>>

----------------------------------------------------------------------------
(* compute_simple_rdf *)

\* lines 16-19
SimpleSetup ==
    /\ pc = "setup"
    /\ call.routine = "compute_simple_rdf"
    /\ IF Len(call.traj) = 0
       THEN \* traj[0] raises IndexError; nothing closes the file
            /\ Raise("InvalidInput", FALSE)
            /\ UNCHANGED <<r_max, rdf>>
       ELSE LET rm == Val(call.r_max)
                bad == RDFCtorError(call.bins, rm, call.r_min)
            IN  /\ r_max' = Some(rm)
                /\ IF bad # "none"
                   THEN /\ Raise(bad, FALSE)
                        /\ UNCHANGED rdf
                   ELSE /\ rdf' = Some(NewRDF(call.bins, rm, call.r_min))
                        /\ pc' = "loop"
                        /\ UNCHANGED <<error, fileOpen>>
    /\ UNCHANGED <<call, type_A, type_B, molecules, k, pre_filter, post_filter,
                   normalization, folded, nlist_pre, nlist_post, sqVars,
                   simVars>>

\* lines 20-21: one frame; the box is the first frame's, the points are all
\* particles of the frame, and freud queries the pairs itself.
SimpleFrame ==
    /\ pc = "loop"
    /\ call.routine = "compute_simple_rdf"
    /\ k < Len(call.traj)
    /\ LET frame == call.traj[k + 1]
           box == call.traj[1].box
           all == Masked(Particles)
           rm == Val(r_max)
       IN  IF QueryTooLarge(box, rm)
           THEN /\ Raise("RuntimeError", FALSE)
                /\ UNCHANGED <<rdf, k, folded, nlist_pre, nlist_post>>
           ELSE LET nlist == Query(box, frame.pos, all, all, rm, TRUE)
                IN  /\ rdf' = Some(FoldFrame(Val(rdf), nlist))
                    /\ k' = k + 1
                    /\ folded' = Append(folded, k)
                    /\ nlist_pre' = nlist
                    /\ nlist_post' = nlist
                    /\ UNCHANGED <<pc, error, fileOpen>>
    /\ UNCHANGED <<call, r_max, type_A, type_B, molecules, pre_filter,
                   post_filter, normalization, sqVars, simVars>>

\* line 23: return rdf.bin_centers, rdf.rdf (the file is left open)
SimpleReturn ==
    /\ pc = "loop"
    /\ call.routine = "compute_simple_rdf"
    /\ k = Len(call.traj)
    /\ pc' = "returned"
    /\ UNCHANGED <<call, fileOpen, r_max, rdf, type_A, type_B, molecules, k,
                   pre_filter, post_filter, normalization, error, folded,
                   nlist_pre, nlist_post, sqVars, simVars>>

Next ==
    \/ Open
    \/ IntermolecularSetup
    \/ IntermolecularFrame
    \/ IntermolecularReturn
    \/ SimpleSetup
    \/ SimpleFrame
    \/ SimpleReturn

Spec == Init /\ [][Next]_vars

----------------------------------------------------------------------------
(* What the claims speak of, stated on particles rather than on array       *)
(* indices, and independently of the operators above.                      *)

Intermolecular == call.routine = "intermolecular_rdf"

\* The frame the claims call the first frame.
Frame0 == call.traj[1]

\* The particles whose type name in the first frame's registry is name.
SpeciesOf(name) ==
    {p \in Particles : Frame0.types[Frame0.typeid[p] + 1] = name}

NameKnown(name) == \E i \in 1..Len(Frame0.types) : Frame0.types[i] = name

Bonded(a, b) == <<a, b>> \in Frame0.bonds \/ <<b, a>> \in Frame0.bonds

\* Two of the three particles are in one molecule when a bond path of at most
\* two bonds joins them.
SameMolecule(a, b) ==
    a = b \/ Bonded(a, b) \/ \E c \in Particles : Bonded(a, c) /\ Bonded(c, b)

\* Separation of particles a and b of a frame, in a box of x edge L.
Separation(frame, L, a, b) ==
    LET dx == Abs(frame.pos[a] - frame.pos[b])
    IN  IF dx % L <= L - (dx % L) THEN dx % L ELSE L - (dx % L)

\* The pairs <<a, b>> (a of species A, b of species B) of frame idx that lie
\* within the search radius.
PairsWithin(idx) ==
    LET f == call.traj[idx + 1]
    IN  IF Intermolecular
        THEN {pr \in SpeciesOf(call.A_name) \X SpeciesOf(call.B_name) :
                /\ pr[1] # pr[2]
                /\ Separation(f, f.box[1], pr[1], pr[2]) < Val(r_max)}
        ELSE {pr \in Particles \X Particles :
                /\ pr[1] # pr[2]
                /\ Separation(f, Frame0.box[1], pr[1], pr[2]) < Val(r_max)}

\* ... and those of them that survive the same-molecule exclusion.
PairsKept(idx) ==
    IF call.exclude_bonded
    THEN {pr \in PairsWithin(idx) : ~SameMolecule(pr[1], pr[2])}
    ELSE PairsWithin(idx)

PairSeparation(idx, pr) ==
    LET f == call.traj[idx + 1]
    IN  Separation(f, IF Intermolecular THEN f.box[1] ELSE Frame0.box[1],
                   pr[1], pr[2])

\* Distance d lies in bin b of the histogram over [r_min, r_max).
InBin(d, b) ==
    LET w == Val(r_max) - call.r_min
        x == (d - call.r_min) * call.bins
    IN  d >= call.r_min /\ b * w <= x /\ x < (b + 1) * w

\* The number of kept pairs of the frames idxs that fall in bin b.
RECURSIVE ExpectedCount(_, _)
ExpectedCount(idxs, b) ==
    IF idxs = <<>> THEN 0
    ELSE Cardinality({pr \in PairsKept(idxs[1]) :
                        InBin(PairSeparation(idxs[1], pr), b)})
         + ExpectedCount(Tail(idxs), b)

\* The frame indices of [start, stop) read literally.
LiteralRange ==
    SetToSortedSeq({i \in 0..(Len(call.traj) - 1) :
        /\ call.start <= i
        /\ (IsNone(call.stop) \/ i < Val(call.stop))})

\* The frame indices of [start, stop) where a negative start or stop counts
\* from the end of the trajectory.
FromEndRange ==
    LET len == Len(call.traj)
        lo == IF call.start < 0 THEN call.start + len ELSE call.start
        hi == IF IsNone(call.stop) THEN len
              ELSE IF Val(call.stop) < 0 THEN Val(call.stop) + len
              ELSE Val(call.stop)
    IN  SetToSortedSeq({i \in 0..(len - 1) : lo <= i /\ i < hi})

\* The histogram holds exactly the first k frames of range, each once, in order.
HistogramHolds(range) ==
    /\ k <= Len(range)
    /\ folded = SubSeq(range, 1, k)
    /\ (pc = "returned" => k = Len(range))
    /\ Val(rdf).frame_counter = k
    /\ \A b \in 0..(call.bins - 1) :
          Val(rdf).bin_counts[b] = ExpectedCount(SubSeq(range, 1, k), b)

Accumulating == pc \in {"loop", "returned"}

----------------------------------------------------------------------------
(* Claims about intermolecular_rdf and compute_simple_rdf (under Spec) *)

\* C1: the survival fraction a call of intermolecular_rdf returns is, when
\* exclude_bonded is true, (pairs kept by the same-molecule filter) / (pairs
\* queried) of the last frame processed, and of no other frame; when
\* exclude_bonded is false it is exactly 1.
C1_SurvivalFractionOfLastFrame ==
    (Intermolecular /\ pc = "returned") =>
        IF call.exclude_bonded
        THEN LET last == folded[Len(folded)]
                 frac == Val(normalization)
             IN  /\ Len(folded) >= 1
                 /\ Cardinality(PairsWithin(last)) > 0
                 /\ frac[2] > 0
                 /\ frac[1] * Cardinality(PairsWithin(last))
                      = Cardinality(PairsKept(last)) * frac[2]
        ELSE normalization = Some(One)

\* C1 witness: a call returned after two frames whose survival fractions
\* differ, so the last frame's, the first frame's and the average all differ.
C1_Witness ==
    /\ Intermolecular /\ pc = "returned" /\ call.exclude_bonded
    /\ Len(folded) = 2
    /\ Cardinality(PairsWithin(folded[1])) > 0
    /\ Cardinality(PairsKept(folded[1])) * Cardinality(PairsWithin(folded[2]))
         # Cardinality(PairsKept(folded[2])) * Cardinality(PairsWithin(folded[1]))

\* C2 as stated: the histogram is created once, never reset, and holds the
\* frames with index in [start, stop) read literally, each once and in order;
\* after k frames it holds the first k of them.
C2_HistogramOfLiteralRange ==
    Accumulating =>
        HistogramHolds(IF Intermolecular THEN LiteralRange
                       ELSE [i \in 1..Len(call.traj) |-> i - 1])

\* C2 amended: the same, for the frames of [start, stop) where a negative
\* start or stop counts from the end of the trajectory.
C2_HistogramOfRange ==
    Accumulating =>
        HistogramHolds(IF Intermolecular THEN FromEndRange
                       ELSE [i \in 1..Len(call.traj) |-> i - 1])

\* C2 witness: a call returned after folding frames 0 and 1, with a bin that
\* holds pairs of both.
C2_Witness ==
    /\ Intermolecular /\ pc = "returned" /\ k = 2 /\ folded = <<0, 1>>
    /\ \E b \in 0..(call.bins - 1) : Val(rdf).bin_counts[b] >= 2

\* C3: with exclude_bonded, the pairs folded into the histogram for a frame
\* are exactly the pairs the neighbor query returned whose two particles are
\* in different molecules of the first frame.
C3_FilterRemovesSameMolecule ==
    (Intermolecular /\ call.exclude_bonded /\ k >= 1) =>
        LET A_ids == SetToSortedSeq(SpeciesOf(call.A_name))
            B_ids == SetToSortedSeq(SpeciesOf(call.B_name))
        IN  /\ \A n \in nlist_post : ~SameMolecule(A_ids[n.p], B_ids[n.q])
            /\ \A n \in nlist_pre :
                  ~SameMolecule(A_ids[n.p], B_ids[n.q]) => n \in nlist_post
            /\ nlist_post \subseteq nlist_pre

\* C3 witness: a frame whose query returned a same-molecule pair and a pair of
\* two molecules, in a call that started after the first frame.
C3_Witness ==
    /\ Intermolecular /\ call.exclude_bonded /\ k >= 1 /\ folded[1] >= 1
    /\ nlist_post # {} /\ nlist_post # nlist_pre

\* C4: the default r_max, with which the RDF object is built, is strictly
\* below half of the smallest box edge of the first frame.
C4_DefaultRMaxBelowHalfSmallestEdge ==
    (Intermolecular /\ IsNone(call.r_max) /\ ~IsNone(rdf)) =>
        \A e \in 1..3 : 2 * Val(r_max) < Frame0.box[e]

\* The arguments C5 names as invalid.
InvalidArguments ==
    \/ call.bins < 1
    \/ call.r_min < 0
    \/ Len(call.traj) = 0
    \/ (~IsNone(r_max) /\ call.r_min >= Val(r_max))

Started == pc \notin {"call", "setup"}

NothingProcessed ==
    k = 0 /\ folded = <<>> /\ normalization = None /\ pc # "returned"

\* C5: with bins < 1, r_min < 0, r_min >= r_max or an empty trajectory,
\* intermolecular_rdf ends in an InvalidInput error, no frame processed and
\* nothing returned.
C5_InvalidInputRejected ==
    (Intermolecular /\ Started /\ InvalidArguments) =>
        pc = "raised" /\ error = "InvalidInput" /\ NothingProcessed

\* C5 witness: a call with a non-empty trajectory, bins >= 1 and r_min >= 0
\* rejected for r_min >= r_max.
C5_Witness ==
    /\ Intermolecular /\ pc = "raised" /\ error = "InvalidInput"
    /\ Len(call.traj) > 0 /\ call.bins >= 1 /\ call.r_min >= 0
    /\ call.r_min >= Val(r_max)

NameAbsent ==
    Len(call.traj) > 0 /\ (~NameKnown(call.A_name) \/ ~NameKnown(call.B_name))

MasksOfFirstFrame ==
    type_A = SpeciesOf(call.A_name) /\ type_B = SpeciesOf(call.B_name)

\* C6 as stated: a name absent from the first frame's registry always ends the
\* call in a Lookup error before any frame; the masks are those of the first
\* frame throughout.
C6_LookupWheneverNameAbsent ==
    Intermolecular =>
        /\ (Started /\ NameAbsent) =>
              pc = "raised" /\ error = "Lookup" /\ NothingProcessed
        /\ (Accumulating \/ (pc = "raised" /\ k > 0)) => MasksOfFirstFrame

\* C6 amended: a name absent from the first frame's registry always ends the
\* call in an error before any frame: the InvalidInput error when the
\* arguments are invalid (the RDF object is built first), else a Lookup error.
C6_ErrorWheneverNameAbsent ==
    Intermolecular =>
        /\ (Started /\ NameAbsent) =>
              /\ pc = "raised" /\ NothingProcessed
              /\ error = IF InvalidArguments \/ Val(r_max) <= 0
                         THEN "InvalidInput" ELSE "Lookup"
        /\ (Accumulating \/ (pc = "raised" /\ k > 0)) => MasksOfFirstFrame

\* C6 witness: a Lookup error for a name that a later frame, the first one of
\* the range, does declare.
C6_Witness ==
    /\ Intermolecular /\ pc = "raised" /\ error = "Lookup"
    /\ Len(call.traj) = 2 /\ call.start = 1
    /\ \E nm \in {call.A_name, call.B_name} :
          /\ ~NameKnown(nm)
          /\ \E i \in 1..Len(call.traj[2].types) : call.traj[2].types[i] = nm

\* C7: when an RDF routine has ended, by return or by error, its trajectory
\* file is closed.
C7_FileClosedOnEveryExit ==
    pc \in {"returned", "raised"} => ~fileOpen

----------------------------------------------------------------------------
(* rdf2sq(r, rdf, Qmin, Qmax, rho)                                          *)
(*                                                                         *)
(* Units.  Radii are whole multiples of a length u, momenta whole multiples *)
(* of pi/(2u), the density a whole multiple of 1/u^3.  Then q*r is a whole  *)
(* multiple of pi/2, whose sine is exactly 0, 1, 0 or -1, and               *)
(*     4*pi*rho*T/q  =  4*rho*(2T)/q   in these units,                      *)
(* where T is the trapezoid sum.  A float is a record: kind "finite" with a *)
(* reduced fraction num/den (den > 0), or kind "nan", "inf", "-inf".        *)

\* np.linspace(Qmin, Qmax, 1000): the number of grid points
NQ == 1000

\* longest radius grid
MaxSamples == 3

Finite(n, d) ==
    LET g == GCD(Abs(n), Abs(d))
        sgn == IF d < 0 THEN -1 ELSE 1
    IN  [kind |-> "finite", num |-> sgn * (n \div g), den |-> sgn * (d \div g)]

NaN == [kind |-> "nan", num |-> 0, den |-> 0]
Inf(sign) == [kind |-> IF sign > 0 THEN "inf" ELSE "-inf", num |-> 0, den |-> 0]

\* numpy float division n/d: a zero divisor gives nan (0/0) or an infinity
FloatDiv(n, d) ==
    IF d # 0 THEN Finite(n, d)
    ELSE IF n = 0 THEN NaN
    ELSE Inf(n)

\* 1 + x
OnePlus(x) == IF x.kind = "finite" THEN Finite(x.den + x.num, x.den) ELSE x

\* line 67 (line 3): q[j] of np.linspace(Qmin, Qmax, NQ), j = 0..NQ-1
Linspace(Qmin, Qmax, jj) == Qmin + (jj * (Qmax - Qmin)) \div (NQ - 1)

\* np.sin(q*r) for q*r a whole multiple of pi/2
SinQuarter(x) == LET m == x % 4 IN IF m = 1 THEN 1 ELSE IF m = 3 THEN -1 ELSE 0

\* line 68 (line 4): dr = r[1] - r[0]; indexing a shorter array raises
\* IndexError (None here)
StepSizeOfEnds(r) == IF Len(r) < 1 THEN None ELSE Some(r[Len(r)] - r[1])
StepSize(r) == IF Len(r) < 2 THEN None ELSE Some(r[2] - r[1])

\* line 71 (line 7): r*(rdf-1)*np.sin(q[j]*r), element i
IntegrandOfRdf(r, g, q, i) == r[i] * g[i] * SinQuarter(q * r[i])
Integrand(r, g, q, i) == r[i] * (g[i] - 1) * SinQuarter(q * r[i])

\* twice np.trapz(y, dx=dr): dr * sum of (y[i] + y[i+1])
RECURSIVE TwoTrapzFrom(_, _, _, _)
TwoTrapzFrom(r, g, q, i) ==
    IF i >= Len(r) THEN 0
    ELSE Integrand(r, g, q, i) + Integrand(r, g, q, i + 1)
         + TwoTrapzFrom(r, g, q, i + 1)

TwoTrapz(r, g, q, dr) == dr * TwoTrapzFrom(r, g, q, 1)

\* line 71 (line 7): 1 + 4*np.pi*rho*np.trapz(...)/q[j]
StructureFactor(r, g, q, dr, rho) ==
    OnePlus(FloatDiv(4 * rho * TwoTrapz(r, g, q, dr), q))

\* The radius grids: r0, r0 + dr, ... of every length up to MaxSamples
RadiusGrids ==
    {[i \in 1..n |-> r0 + (i - 1) * dr] :
        n \in 0..MaxSamples, r0 \in {0, 1}, dr \in {1, 2}}

\* g(r) = 1 everywhere (the ideal gas), or a g(r) with a first peak
IdealRdf(r) == [i \in 1..Len(r) |-> 1]
PeakedRdf(r) == [i \in 1..Len(r) |-> IF i = 1 THEN 0 ELSE 2]

SqCalls ==
    UNION {{[r |-> r, rdf |-> g, Qmin |-> qmin, Qmax |-> qmin + (NQ - 1),
             rho |-> rho] :
               g \in {IdealRdf(r), PeakedRdf(r)},
               qmin \in {-1, 0, 1}, rho \in {1, 2}} :
           r \in RadiusGrids}

InitSq ==
    /\ sqcall \in {Some(c) : c \in SqCalls}
    /\ sqpc = "call"
    /\ j = 0
    /\ sq = <<>>
    /\ sqerror = "none"
    /\ rdfIdle /\ simIdle

\* lines 67-69: the grid, the step size, the zeroed result array (sq holds
\* the entries computed so far)
SqBegin ==
    /\ sqpc = "call"
    /\ IF IsNone(StepSize(Val(sqcall).r))
       THEN sqpc' = "raised" /\ sqerror' = "InvalidInput"
       ELSE sqpc' = "loop" /\ UNCHANGED sqerror
    /\ UNCHANGED <<sqcall, j, sq, rdfVars, simVars>>

\* lines 70-71: one pass of the loop over the grid
SqPoint ==
    /\ sqpc = "loop"
    /\ j < NQ
    /\ LET c == Val(sqcall)
       IN  sq' = Append(sq, StructureFactor(c.r, c.rdf,
                                            Linspace(c.Qmin, c.Qmax, j),
                                            Val(StepSize(c.r)), c.rho))
    /\ j' = j + 1
    /\ UNCHANGED <<sqcall, sqpc, sqerror, rdfVars, simVars>>

\* line 72 (line 8): return q, sq
SqReturn ==
    /\ sqpc = "loop"
    /\ j = NQ
    /\ sqpc' = "returned"
    /\ UNCHANGED <<sqcall, j, sq, sqerror, rdfVars, simVars>>

NextSq == SqBegin \/ SqPoint \/ SqReturn

SpecSq == InitSq /\ [][NextSq]_vars

----------------------------------------------------------------------------
(* Claims about rdf2sq (under SpecSq) *)

SqStarted == sqpc # "call"

IsOne(x) == x.kind = "finite" /\ x.num = x.den

\* The grid point of entry i of sq (1-based): Qmin + (i-1) * grid step
GridPoint(i) ==
    Val(sqcall).Qmin
      + ((i - 1) * (Val(sqcall).Qmax - Val(sqcall).Qmin)) \div (NQ - 1)

IdealGas == \A i \in 1..Len(Val(sqcall).r) : Val(sqcall).rdf[i] = 1

\* C8: with fewer than 2 radius samples rdf2sq ends in an error (IndexError
\* at r[1] - r[0], the InvalidInput outcome) and returns no result.
C8_ShortRadiiRejected ==
    (SqStarted /\ Len(Val(sqcall).r) < 2) =>
        sqpc = "raised" /\ sqerror = "InvalidInput" /\ sq = <<>>

\* C8 witness: a call with exactly one radius sample has been rejected.
C8_Witness ==
    sqpc = "raised" /\ Len(Val(sqcall).r) = 1

\* C9 as stated: for g(r) = 1 everywhere, every entry of the structure factor
\* is 1, at every point of the grid.
C9_IdealGasGivesOneEverywhere ==
    (sqpc \in {"loop", "returned"} /\ IdealGas) =>
        /\ (sqpc = "returned" => Len(sq) = NQ)
        /\ \A i \in 1..Len(sq) : IsOne(sq[i])

\* C9 amended: for g(r) = 1 everywhere, the structure factor is 1 at every
\* grid point q # 0 and NaN (0/0) at a grid point q = 0.  (Each entry is
\* looked at when the loop has just written it, and all of them at return.)
C9_IdealGasGivesOneAwayFromZero ==
    (sqpc \in {"loop", "returned"} /\ IdealGas) =>
        /\ (sqpc = "returned" => Len(sq) = NQ)
        /\ \A i \in (IF sqpc = "returned" THEN 1..Len(sq) ELSE {Len(sq)} \ {0}) :
              IF GridPoint(i) # 0 THEN IsOne(sq[i]) ELSE sq[i].kind = "nan"

\* C9 witness: a returned ideal-gas transform on three radii whose grid has
\* no point q = 0, with all NQ entries equal to 1.
C9_Witness ==
    /\ sqpc = "returned" /\ IdealGas /\ Len(Val(sqcall).r) = 3
    /\ Val(sqcall).Qmin > 0
    /\ Len(sq) = NQ
    /\ \A i \in 1..Len(sq) : IsOne(sq[i])

----------------------------------------------------------------------------
(* mie_fluid and table_fluid: the engine operations after the setup of the  *)
(* simulation (hoomd_sim.py lines 44-74 and 119-151).                       *)

\* sim.run(5_000)
ThermalSteps == 5000
\* sim.run(10_000)
ResizeSteps == 10000
\* largest eq_time and production_time explored
MaxEqTime == 2
MaxProductionTime == 2

Stmt(op, n) == [op |-> op, n |-> n]

\* The statements in program order, with the writer attached too early
ProgramWriterEarly(c) ==
    <<Stmt("thermalize", 0), Stmt("run", ThermalSteps),
      Stmt("append_updater", 0), Stmt("run", ResizeSteps),
      Stmt("append_writer", 0), Stmt("run", c.eq_time),
      Stmt("remove_updater", 0), Stmt("run", c.production_time)>>
      \o (IF c.routine = "table_fluid" THEN <<Stmt("flush", 0)>> ELSE <<>>)

\* The statements in program order
Program(c) ==
    <<Stmt("thermalize", 0), Stmt("run", ThermalSteps),
      Stmt("append_updater", 0), Stmt("run", ResizeSteps),
      Stmt("run", c.eq_time), Stmt("remove_updater", 0),
      Stmt("append_writer", 0), Stmt("run", c.production_time)>>
      \o (IF c.routine = "table_fluid" THEN <<Stmt("flush", 0)>> ELSE <<>>)

SimCalls ==
    [routine : {"mie_fluid", "table_fluid"}, eq_time : 0..MaxEqTime,
     production_time : 0..MaxProductionTime]

InitSim ==
    /\ simcall \in {Some(c) : c \in SimCalls}
    /\ simpc = 1
    /\ timestep = 0
    /\ updaters = {}
    /\ writers = {}
    /\ remaining = None
    /\ ranIn = {}
    /\ oplog = <<>>
    /\ rdfIdle /\ sqIdle

SimDone == simpc > Len(Program(Val(simcall)))

Current == Program(Val(simcall))[simpc]

At(op) == simpc >= 1 /\ ~SimDone /\ Current.op = op

Advance == simpc' = simpc + 1 /\ oplog' = Append(oplog, Current)

\* the number of sim.run calls begun so far
RunsBegun(log) == Len(SelectSeq(log, LAMBDA e : e.op = "run"))

\* line 45 / 120: sim.state.thermalize_particle_momenta
Thermalize ==
    /\ At("thermalize")
    /\ Advance
    /\ UNCHANGED <<simcall, timestep, updaters, writers, remaining, ranIn,
                   rdfVars, sqVars>>

\* sim.run(n) is entered
BeginRun ==
    /\ At("run")
    /\ IsNone(remaining)
    /\ remaining' = Some(Current.n)
    /\ oplog' = Append(oplog, Current)
    /\ UNCHANGED <<simcall, simpc, timestep, updaters, writers, ranIn,
                   rdfVars, sqVars>>

\* one time step of the run in progress, with the attached operations
Step ==
    /\ At("run")
    /\ ~IsNone(remaining)
    /\ Val(remaining) > 0
    /\ remaining' = Some(Val(remaining) - 1)
    /\ timestep' = timestep + 1
    /\ ranIn' = ranIn \cup {[run |-> RunsBegun(oplog),
                             resize |-> "box_resize" \in updaters,
                             writer |-> "gsd_writer" \in writers]}
    /\ UNCHANGED <<simcall, simpc, updaters, writers, oplog, rdfVars, sqVars>>

\* sim.run(n) returns
EndRun ==
    /\ At("run")
    /\ remaining = Some(0)
    /\ remaining' = None
    /\ simpc' = simpc + 1
    /\ UNCHANGED <<simcall, timestep, updaters, writers, ranIn, oplog,
                   rdfVars, sqVars>>

\* line 57 / 132: sim.operations.updaters.append(box_resize)
AppendUpdater ==
    /\ At("append_updater")
    /\ updaters' = updaters \cup {"box_resize"}
    /\ Advance
    /\ UNCHANGED <<simcall, timestep, writers, remaining, ranIn, rdfVars,
                   sqVars>>

\* line 62 / 137: sim.operations.updaters.remove(box_resize)
RemoveUpdater ==
    /\ At("remove_updater")
    /\ updaters' = updaters \ {"box_resize"}
    /\ Advance
    /\ UNCHANGED <<simcall, timestep, writers, remaining, ranIn, rdfVars,
                   sqVars>>

\* line 68 / 143: sim.operations.writers.append(gsd_writer)
AppendWriter ==
    /\ At("append_writer")
    /\ writers' = writers \cup {"gsd_writer"}
    /\ Advance
    /\ UNCHANGED <<simcall, timestep, updaters, remaining, ranIn, rdfVars,
                   sqVars>>

\* line 151 (table_fluid only): gsd_writer.flush()
Flush ==
    /\ At("flush")
    /\ Advance
    /\ UNCHANGED <<simcall, timestep, updaters, writers, remaining, ranIn,
                   rdfVars, sqVars>>

NextSim ==
    \/ Thermalize
    \/ BeginRun
    \/ Step
    \/ EndRun
    \/ AppendUpdater
    \/ RemoveUpdater
    \/ AppendWriter
    \/ Flush

SpecSim == InitSim /\ [][NextSim]_vars

----------------------------------------------------------------------------
(* Claim about mie_fluid and table_fluid (under SpecSim) *)

\* The sequence of phases the claim gives.
PhaseSequence ==
    <<Stmt("thermalize", 0), Stmt("run", 5000), Stmt("append_updater", 0),
      Stmt("run", 10000), Stmt("run", Val(simcall).eq_time),
      Stmt("remove_updater", 0), Stmt("append_writer", 0),
      Stmt("run", Val(simcall).production_time)>>

EngineOps == SelectSeq(oplog, LAMBDA e : e.op # "flush")

\* C10: the engine is driven through thermalize, run 5000, attach the
\* box-resize updater, run 10000, run eq_time, remove the updater, attach the
\* trajectory writer, run production_time, in this order; the writer is
\* attached during no step of the first three runs (thermalization, box
\* resizing, equilibration) and the updater during no step of the fourth
\* (production).
C10_PhaseOrder ==
    /\ Len(EngineOps) <= Len(PhaseSequence)
    /\ EngineOps = SubSeq(PhaseSequence, 1, Len(EngineOps))
    /\ (SimDone => EngineOps = PhaseSequence)
    /\ \A o \in ranIn :
          /\ o.run \in 1..3 => ~o.writer
          /\ o.run = 4 => ~o.resize
          /\ o.run \in 1..4

\* C10 witness: a finished simulation that took steps in all four runs, the
\* updater attached in the second and third, the writer in the fourth.
C10_Witness ==
    /\ SimDone
    /\ \A n \in 1..4 : \E o \in ranIn : o.run = n
    /\ \E o \in ranIn : o.run = 2 /\ o.resize
    /\ \E o \in ranIn : o.run = 3 /\ o.resize
    /\ \E o \in ranIn : o.run = 4 /\ o.writer

====
